---- MODULE Spec2Model ----
(***************************************************************************)
(* A model of GSCFClient.Session (src/GSCFClient.py): the construction of  *)
(* a session, the authentication exchange, the authenticated call          *)
(* dispatcher __call__ and the read operations built on it.                *)
(*                                                                         *)
(* Text is modelled as a sequence of atoms (one-element strings and fixed  *)
(* literals), so that the concatenations of the code are concatenations    *)
(* here.  A JSON value is [kind |-> "list", v |-> <<...>>] or              *)
(* [kind |-> "dict", v |-> a function]; the innermost records of a         *)
(* payload are plain functions from field name to value.                   *)
(***************************************************************************)
EXTENDS Integers, Sequences, FiniteSets, TLC

VARIABLES
    phase,            \* "new": no Session(...) yet; "live": __init__ returned; "failed": __init__ raised
    pandasInstalled,  \* the host: whether "import pandas" succeeds
    user, passwd, apikey, dataframe, deviceID,   \* self.user .. self.deviceID
    pandas,           \* whether the attribute self.pandas was set
    sequence, token,  \* self.sequence, self.token
    sent,             \* the requests the last operation handed to urllib2.urlopen, in order
    creds,            \* the validation field of every request sent since the last
                      \* authenticate, in order, and whether __call__ computed it
    nsent,            \* how many requests have been sent in all
    handles,          \* the handles urllib2.urlopen returned that are not closed (open),
                      \* and the most that were open at once during the last operation
                      \* (peak)
    srvSeq,           \* the server: the sequence value of the last request it counted
    op,               \* the last operation called, its arguments, the answers the
                      \* service had for its requests, how it ended, and the options
                      \* mapping of its last __call__ as the call left it
    since,            \* since the last successful authenticate: the sequence value the
                      \* service returned in it (initial), the invoke calls that succeeded
                      \* (ok) and failed (bad), whether an authenticate failed (reauth)
    pc, frame,        \* concurrent use: where each thread stands in __call__, its locals
    overlap,          \* concurrent use: a call began while another was in progress
    desync            \* concurrent use: the service received a credential for a sequence
                      \* value other than the one it expected next

vars == <<phase, pandasInstalled, user, passwd, apikey, dataframe, deviceID,
          pandas, sequence, token, sent, creds, nsent, handles, srvSeq, op, since,
          pc, frame, overlap, desync>>

threadVars == <<pc, frame, overlap, desync>>

---------------------------------------------------------------------------
(* Bounds of the model *)

MaxSent == 3
MaxTokens == 2

---------------------------------------------------------------------------
(* Inputs *)

Users == {<<"a">>}
Passwords == {<<"p">>}
ApiKeys == {<<"k">>}
SessionTokens == {<<"T">>, <<"U">>}
InitSeqs == {9, 10}

HostMac == 17
base_string == <<"GSCF database Python API">>
baseurl == <<"http://studies.dbnp.org/api/">>

---------------------------------------------------------------------------
(* Text and digests *)

Digit(d) == <<"0", "1", "2", "3", "4", "5", "6", "7", "8", "9">>[d + 1]

RECURSIVE Str(_)
Str(n) ==
    IF n < 0 THEN <<"-">> \o Str(0 - n)
    ELSE IF n < 10 THEN <<Digit(n)>>
    ELSE Str(n \div 10) \o <<Digit(n % 10)>>

\* md5.md5(s).hexdigest(): a digest, taken to be free of collisions
Md5Hex(s) == <<"md5:">> \o s

\* base64.encodestring(s)[:-1]
Base64(s) == <<"b64:">> \o s

CreateDeviceID(username) == Md5Hex(Str(HostMac) \o base_string \o username)

ValidationFor(tok, seq, key) == Md5Hex(tok \o Str(seq) \o key)

---------------------------------------------------------------------------
(* The remote service: what it holds and how it may answer *)

StudyTokens == {"s1", "s2"}
AssayTokens == {"a1", "a2"}

Studies ==
    <<[token |-> "s1", title |-> "PPS study"], [token |-> "s2", title |-> "other"]>>

Subjects(t) ==
    CASE t = "s1" -> <<[token |-> "p1", name |-> "n1"], [token |-> "p2", name |-> "n2"]>>
      [] t = "s2" -> <<[token |-> "p2", name |-> "n2"]>>
      [] OTHER -> <<>>

Assays(t) ==
    CASE t = "s1" -> <<[token |-> "a1", name |-> "n1"]>>
      [] t = "s2" -> <<[token |-> "a2", name |-> "n2"], [token |-> "a1", name |-> "n1"]>>
      [] OTHER -> <<>>

Samples(t) ==
    CASE t = "a1" -> <<[token |-> "m1", name |-> "n1"]>>
      [] t = "a2" -> <<[token |-> "m1", name |-> "n1"], [token |-> "m2", name |-> "n2"]>>
      [] OTHER -> <<>>

\* the measurements of an assay: a mapping from token to field-mapping
Measurements(t) ==
    CASE t = "a1" -> ("tok1" :> [x |-> 1, y |-> 2]) @@ ("tok2" :> [x |-> 3, y |-> 4])
      [] t = "a2" -> ("tok3" :> [x |-> 5, y |-> 6])
      [] OTHER -> <<>>

JsonList(l) == [kind |-> "list", v |-> l]
JsonDict(d) == [kind |-> "dict", v |-> d]

OptionOr(options, key) == IF key \in DOMAIN options THEN options[key] ELSE "none"

\* the decoded body of a 2xx answer to an action
Payload(action, options) ==
    CASE action = "getStudies" -> ("studies" :> JsonList(Studies))
      [] action = "getSubjectsForStudy" ->
            ("subjects" :> JsonList(Subjects(OptionOr(options, "studyToken"))))
      [] action = "getAssaysForStudy" ->
            ("assays" :> JsonList(Assays(OptionOr(options, "studyToken"))))
      [] action = "getSamplesForAssay" ->
            ("samples" :> JsonList(Samples(OptionOr(options, "assayToken"))))
      [] action = "getMeasurementDataForAssay" ->
            ("measurements" :> JsonDict(Measurements(OptionOr(options, "assayToken"))))

\* how the service may answer an action: "ok" (2xx, the payload, which always holds
\* the action's result key), "badjson" (2xx, not JSON), "http" (non-2xx), "unreach"
\* (the request never reached the service)
Responses == {"ok", "badjson", "http", "unreach"}

\* how the service may answer authenticate
AuthResponses ==
    [kind : {"ok"}, sequence : InitSeqs, token : SessionTokens]
    \cup [kind : {"notoken"}, sequence : InitSeqs, token : {<<>>}]
    \cup [kind : {"noseq", "badjson", "http", "unreach"}, sequence : {0}, token : {<<>>}]

\* the service answers "ok" only to the credential of the sequence value it expects next
ServerAccepts(req, m) ==
    /\ req.body["deviceID"] = m.deviceID
    /\ req.body["validation"] = ValidationFor(m.token, m.srv + 1, m.apikey)

\* the service counts every request that reaches it
ServerCount(srv, delivered) == IF delivered THEN srv + 1 ELSE srv

---------------------------------------------------------------------------
(* Session.authenticate and Session.__call__ *)

\* The running state m of a method: the fields of self, the requests it has sent so
\* far (sent), the handles it holds open and the most it held at once (open, peak),
\* the service's counter (srv), the mapping passed as options to the last __call__ as
\* that call left it (options), the exception raised (exc, "None" if none),
\* the value returned (val), and whether the answers drawn so far are ones the
\* service can give (feasible).
Blank ==
    [user |-> <<>>, passwd |-> <<>>, apikey |-> <<>>, dataframe |-> FALSE,
     deviceID |-> <<>>, pandas |-> FALSE, sequence |-> 0, token |-> <<>>,
     sent |-> <<>>, open |-> 0, peak |-> 0, srv |-> 0, options |-> <<>>, exc |-> "None",
     val |-> <<>>, feasible |-> TRUE]

Machine ==
    [user |-> user, passwd |-> passwd, apikey |-> apikey, dataframe |-> dataframe,
     deviceID |-> deviceID, pandas |-> pandas, sequence |-> sequence, token |-> token,
     sent |-> <<>>, open |-> handles.open, peak |-> handles.open, srv |-> srvSeq,
     options |-> <<>>, exc |-> "None", val |-> <<>>, feasible |-> TRUE]

\* urllib2.urlopen(req) returns a handle when the service answers 2xx, and raises
\* HTTPError or URLError otherwise
Opens(kind) == kind \notin {"http", "unreach"}

urlopen(m, kind) ==
    IF Opens(kind) THEN [m EXCEPT !.open = @ + 1,
                                  !.peak = IF m.open + 1 > @ THEN m.open + 1 ELSE @]
    ELSE m

closingUnlessRaised(m, kind, raised) ==
    IF Opens(kind) /\ ~raised THEN [m EXCEPT !.open = @ - 1] ELSE m

\* with closing(handle): the handle is closed when the block is left, whether it ran
\* to its end or raised
closing(m, kind, raised) ==
    IF Opens(kind) THEN [m EXCEPT !.open = @ - 1] ELSE m

AuthException(kind) ==
    CASE kind = "http" -> "HTTPError"
      [] kind = "unreach" -> "URLError"
      [] kind = "badjson" -> "ValueError"
      [] kind \in {"noseq", "notoken"} -> "KeyError"
      [] OTHER -> "None"

AuthRequestNamingUser(m) ==
    [url |-> baseurl \o <<"authenticate">>,
     auth |-> <<"Basic ">> \o Base64(m.user \o <<":">> \o m.passwd),
     body |-> ("deviceID" :> m.user)]

AuthRequest(m) ==
    [url |-> baseurl \o <<"authenticate">>,
     auth |-> <<"Basic ">> \o Base64(m.user \o <<":">> \o m.passwd),
     body |-> ("deviceID" :> m.deviceID)]

StoredSequenceShifted(result) == result.sequence + 1

\* self.sequence = result['sequence']
StoredSequence(result) == result.sequence

authenticate(m, r) ==
    [closing(urlopen(m, r.kind), r.kind, AuthException(r.kind) # "None") EXCEPT
       !.sent = Append(m.sent, AuthRequest(m) @@ [delivered |-> r.kind # "unreach"]),
       !.exc = AuthException(r.kind),
       !.sequence = IF r.kind \in {"ok", "notoken"} THEN StoredSequence(r) ELSE @,
       !.token = IF r.kind = "ok" THEN r.token ELSE @,
       !.srv = IF r.kind \in {"ok", "notoken"} THEN r.sequence ELSE @]

IncrementTwice(seq) == seq + 2

\* self.sequence += 1
Increment(seq) == seq + 1

QueryArgsReservedLast(dev, validation, options) ==
    ("deviceID" :> dev) @@ ("validation" :> validation) @@ options

\* query_args = {"deviceID": .., "validation": ..}; query_args.update(options)
QueryArgs(dev, validation, options) ==
    options @@ ("deviceID" :> dev) @@ ("validation" :> validation)

CallException(r) ==
    CASE r = "http" -> "HTTPError"
      [] r = "unreach" -> "URLError"
      [] r = "badjson" -> "ValueError"
      [] OTHER -> "None"

CallRequestStale(m, action, options) ==
    [url |-> baseurl \o <<action>>,
     auth |-> <<>>,
     body |-> QueryArgs(m.deviceID, ValidationFor(m.token, m.sequence - 1, m.apikey), options)]

CallRequest(m, action, options) ==
    [url |-> baseurl \o <<action>>,
     auth |-> <<>>,
     body |-> QueryArgs(m.deviceID, ValidationFor(m.token, m.sequence, m.apikey), options)]

CallRollingBack(m, action, options, r) ==
    LET m1 == [m EXCEPT !.sequence = Increment(@)]
        req == CallRequest(m1, action, options)
    IN  [closing(urlopen(m1, r), r, CallException(r) # "None") EXCEPT
           !.sequence = IF r = "ok" THEN @ ELSE m.sequence,
           !.sent = Append(m.sent, req @@ [delivered |-> r # "unreach"]),
           !.srv = ServerCount(m.srv, r # "unreach"),
           !.options = options,
           !.exc = CallException(r),
           !.val = IF r = "ok" THEN Payload(action, options) ELSE <<>>,
           !.feasible = m.feasible /\ (r = "ok" => ServerAccepts(req, m))]

__call__(m, action, options, r) ==
    LET m1 == [m EXCEPT !.sequence = Increment(@)]
        req == CallRequest(m1, action, options)
    IN  [closing(urlopen(m1, r), r, CallException(r) # "None") EXCEPT
           !.sent = Append(m.sent, req @@ [delivered |-> r # "unreach"]),
           !.srv = ServerCount(m.srv, r # "unreach"),
           !.options = options,
           !.exc = CallException(r),
           !.val = IF r = "ok" THEN Payload(action, options) ELSE <<>>,
           !.feasible = m.feasible /\ (r = "ok" => ServerAccepts(req, m))]

---------------------------------------------------------------------------
(* Session.to_dataframe and the read operations *)

Raise(m, e) == [m EXCEPT !.exc = e, !.val = <<>>]
Return(m, v) == [m EXCEPT !.val = v]

Columns(data) == UNION {DOMAIN data[i] : i \in 1..Len(data)}

\* pandas.DataFrame(data).set_index('token'): the rows in the order of data, indexed
\* by their token, the other fields as columns
Table(data) ==
    [kind |-> "table",
     index |-> [i \in 1..Len(data) |-> data[i]["token"]],
     columns |-> Columns(data) \ {"token"},
     rows |-> [i \in 1..Len(data) |-> [c \in DOMAIN data[i] \ {"token"} |-> data[i][c]]]]

to_dataframe(m, data) ==
    IF ~m.pandas THEN Raise(m, "AttributeError")
    ELSE IF "token" \notin Columns(data) THEN Raise(m, "KeyError")
    ELSE Return(m, Table(data))

\* the keys of a mapping in the order its iteration gives them
KeyOrder(d) ==
    CHOOSE s \in [1..Cardinality(DOMAIN d) -> DOMAIN d] : {s[i] : i \in DOMAIN s} = DOMAIN d

ListIAddDistinct(res, x) ==
    LET elements == IF x.kind = "dict" THEN KeyOrder(x.v) ELSE x.v
    IN  JsonList(res.v \o SelectSeq(elements, LAMBDA e : \A i \in 1..Len(res.v) : res.v[i] # e))

\* res += x: the list res extended by the elements x yields when iterated
ListIAdd(res, x) ==
    JsonList(res.v \o (IF x.kind = "dict" THEN KeyOrder(x.v) ELSE x.v))

\* res = self(action)[key]
Fetch(m, action, options, key, r) ==
    LET m1 == __call__(m, action, options, r)
    IN  IF m1.exc # "None" THEN m1
        ELSE IF key \notin DOMAIN m1.val THEN Raise(m1, "KeyError")
        ELSE Return(m1, m1.val[key])

MergeReturningInLoop(m, res, action, optkey, key, tokens, rs) ==
    IF tokens = <<>> THEN Return(m, res)
    ELSE LET m1 == Fetch(m, action, optkey :> Head(tokens), key, Head(rs))
         IN  IF m1.exc # "None" THEN m1 ELSE Return(m1, ListIAdd(res, m1.val))

RECURSIVE MergeDeferringRaise(_, _, _, _, _, _, _)
MergeDeferringRaise(m, res, action, optkey, key, tokens, rs) ==
    IF tokens = <<>> THEN Return(m, res)
    ELSE LET m1 == Fetch(m, action, optkey :> Head(tokens), key, Head(rs))
             res1 == IF m1.exc # "None" THEN res ELSE ListIAdd(res, m1.val)
             m2 == MergeDeferringRaise([m1 EXCEPT !.exc = "None"], res1, action, optkey, key,
                                       Tail(tokens), Tail(rs))
         IN  IF m1.exc # "None" THEN Raise(m2, m1.exc) ELSE m2

\* res = []; for token in tokens: res += self(action, {optkey: token})[key]
RECURSIVE Merge(_, _, _, _, _, _, _)
Merge(m, res, action, optkey, key, tokens, rs) ==
    IF tokens = <<>> THEN Return(m, res)
    ELSE LET m1 == Fetch(m, action, optkey :> Head(tokens), key, Head(rs))
         IN  IF m1.exc # "None" THEN m1
             ELSE Merge(m1, ListIAdd(res, m1.val), action, optkey, key, Tail(tokens), Tail(rs))

\* if self.dataframe: res = self.to_dataframe(res)
Reshaped(m) ==
    IF m.exc # "None" \/ ~m.dataframe THEN m ELSE to_dataframe(m, m.val.v)

getStudies(m, rs) == Reshaped(Fetch(m, "getStudies", <<>>, "studies", rs[1]))

getSubjectsForStudy(m, tokens, rs) ==
    Reshaped(Merge(m, JsonList(<<>>), "getSubjectsForStudy", "studyToken", "subjects", tokens, rs))

getAssaysForStudy(m, tokens, rs) ==
    Reshaped(Merge(m, JsonList(<<>>), "getAssaysForStudy", "studyToken", "assays", tokens, rs))

getSamplesForAssay(m, tokens, rs) ==
    Reshaped(Merge(m, JsonList(<<>>), "getSamplesForAssay", "assayToken", "samples", tokens, rs))

\* temp = [dict([('token', k)] + v.items()) for k, v in res.iteritems()]
MeasurementRecords(res) ==
    LET ks == KeyOrder(res.v)
    IN  [i \in 1..Len(ks) |-> res.v[ks[i]] @@ ("token" :> ks[i])]

MeasurementReshaped(m) ==
    IF m.exc # "None" \/ ~m.dataframe THEN m
    ELSE IF m.val.kind # "dict" THEN Raise(m, "AttributeError")
    ELSE to_dataframe(m, MeasurementRecords(m.val))

getMeasurementDataForAssay(m, tokens, rs) ==
    MeasurementReshaped(
        Merge(m, JsonList(<<>>), "getMeasurementDataForAssay", "assayToken", "measurements",
              tokens, rs))

---------------------------------------------------------------------------
(* The state machine: one action per call a user of the class makes *)

NoOp ==
    [name |-> "none", tokens |-> <<>>, options |-> <<>>, optionsAfter |-> <<>>,
     answers |-> <<>>, seq0 |-> 0, exc |-> "None", val |-> <<>>]

Threads == {"t1", "t2"}

NoFrame == [tmp |-> 0, validation |-> <<>>]

Init ==
    /\ phase = "new"
    /\ pandasInstalled \in BOOLEAN
    /\ user = <<>> /\ passwd = <<>> /\ apikey = <<>> /\ deviceID = <<>>
    /\ dataframe = FALSE /\ pandas = FALSE
    /\ sequence = 0 /\ token = <<>>
    /\ sent = <<>> /\ creds = <<>> /\ nsent = 0 /\ srvSeq = 0
    /\ handles = [open |-> 0, peak |-> 0]
    /\ op = NoOp
    /\ since = [initial |-> 0, ok |-> 0, bad |-> 0, reauth |-> FALSE]
    /\ pc = [t \in Threads |-> "idle"]
    /\ frame = [t \in Threads |-> NoFrame]
    /\ overlap = FALSE /\ desync = FALSE

\* the sequences of at most MaxTokens tokens for which MaxSent leaves room
TokenSeqs(S) ==
    UNION {[1..n -> S] : n \in {k \in 0..MaxTokens : nsent + k <= MaxSent}}

\* the answers to n requests in a row; an answer that ends the operation is the last
\* one read, and the ones never read are written "ok"
ResponseSeqs(n) ==
    {rs \in [1..n -> Responses] :
        \A i \in 1..n : rs[i] # "ok" => \A j \in (i + 1)..n : rs[j] = "ok"}

\* the exceptions with which __call__ ends
CallFailures == {"HTTPError", "URLError", "ValueError"}

\* the record of calls since the last successful authenticate, after the method that
\* ran to m (an exception of __call__ ends the method: the failed call is its last)
Since(m, name) ==
    IF name \in {"init", "authenticate"}
    THEN IF m.exc \in {"None", "ImportError"}
         THEN [initial |-> m.srv, ok |-> 0, bad |-> 0, reauth |-> FALSE]
         ELSE [since EXCEPT !.reauth = TRUE]
    ELSE LET failed == IF m.exc \in CallFailures THEN 1 ELSE 0
         IN  [since EXCEPT !.ok = @ + Len(m.sent) - failed, !.bad = @ + failed]

\* the validation fields sent since the last authenticate, after the method that sent
\* reqs with the options given
Creds(reqs, name, options) ==
    IF name \in {"init", "authenticate"} THEN <<>>
    ELSE creds \o [i \in 1..Len(reqs) |->
                     [validation |-> reqs[i].body["validation"],
                      computed |-> "validation" \notin DOMAIN options]]

\* the method ran from the state m0 to m: its effects become the state
Commit(m0, run, name, tokens, options, answers) ==
    \E m \in {run} :
        /\ m.feasible
        /\ user' = m.user /\ passwd' = m.passwd /\ apikey' = m.apikey
        /\ dataframe' = m.dataframe /\ deviceID' = m.deviceID /\ pandas' = m.pandas
        /\ sequence' = m.sequence /\ token' = m.token
        /\ sent' = m.sent /\ srvSeq' = m.srv
        /\ nsent' = nsent + Len(m.sent)
        /\ handles' = [open |-> m.open, peak |-> m.peak]
        /\ creds' = Creds(m.sent, name, options)
        /\ op' = [name |-> name, tokens |-> tokens, options |-> options,
                  optionsAfter |-> m.options, answers |-> answers, seq0 |-> m0.sequence,
                  exc |-> m.exc, val |-> m.val]
        /\ since' = Since(m, name)
        /\ UNCHANGED threadVars

\* if dataframe: import pandas; self.pandas = pandas, or raise ImportError
ImportPandas(m, installed) ==
    IF m.exc # "None" \/ ~m.dataframe THEN m
    ELSE IF installed THEN [m EXCEPT !.pandas = TRUE]
    ELSE Raise(m, "ImportError")

__init__(username, password, api_key, df, installed, r) ==
    LET m0 == [Blank EXCEPT !.user = username, !.passwd = password, !.apikey = api_key,
                            !.dataframe = df, !.deviceID = CreateDeviceID(username)]
    IN  ImportPandas(authenticate(m0, r), installed)

ConstructedAnyway(m) == m.exc \in {"None", "HTTPError", "URLError", "ValueError", "KeyError"}

\* whether Session(...) hands the caller an object: no exception left __init__
Constructed(m) == m.exc = "None"

New ==
    /\ phase = "new"
    /\ nsent < MaxSent
    /\ \E username \in Users, password \in Passwords, api_key \in ApiKeys,
          df \in BOOLEAN, r \in AuthResponses :
         LET m == __init__(username, password, api_key, df, pandasInstalled, r)
         IN  /\ Commit(Machine, m, "init", <<>>, <<>>, <<r>>)
             /\ phase' = IF Constructed(m) THEN "live" ELSE "failed"
    /\ UNCHANGED pandasInstalled

Reauthenticate ==
    /\ phase = "live"
    /\ nsent < MaxSent
    /\ \E r \in AuthResponses :
         Commit(Machine, authenticate(Machine, r), "authenticate", <<>>, <<>>, <<r>>)
    /\ UNCHANGED <<phase, pandasInstalled>>

\* the actions a caller of session(action, options) names
Actions == {"getStudies", "getSubjectsForStudy"}

\* the options a caller of session(action, options) passes
CallOptions ==
    {<<>>, "studyToken" :> "s1", "validation" :> <<"v">>,
     ("deviceID" :> <<"d">>) @@ ("assayToken" :> "a1")}

DirectCall ==
    /\ phase = "live"
    /\ nsent < MaxSent
    /\ \E action \in Actions, options \in CallOptions, r \in Responses :
         Commit(Machine, __call__(Machine, action, options, r), "call", <<>>, options, <<r>>)
    /\ UNCHANGED <<phase, pandasInstalled>>

ReadStudies ==
    /\ phase = "live"
    /\ nsent < MaxSent
    /\ \E rs \in ResponseSeqs(1) :
         Commit(Machine, getStudies(Machine, rs), "getStudies", <<>>, <<>>, rs)
    /\ UNCHANGED <<phase, pandasInstalled>>

ReadSubjects ==
    /\ phase = "live"
    /\ \E tokens \in TokenSeqs(StudyTokens) : \E rs \in ResponseSeqs(Len(tokens)) :
         Commit(Machine, getSubjectsForStudy(Machine, tokens, rs), "getSubjectsForStudy", tokens, <<>>,
                rs)
    /\ UNCHANGED <<phase, pandasInstalled>>

ReadAssays ==
    /\ phase = "live"
    /\ \E tokens \in TokenSeqs(StudyTokens) : \E rs \in ResponseSeqs(Len(tokens)) :
         Commit(Machine, getAssaysForStudy(Machine, tokens, rs), "getAssaysForStudy", tokens, <<>>,
                rs)
    /\ UNCHANGED <<phase, pandasInstalled>>

ReadSamples ==
    /\ phase = "live"
    /\ \E tokens \in TokenSeqs(AssayTokens) : \E rs \in ResponseSeqs(Len(tokens)) :
         Commit(Machine, getSamplesForAssay(Machine, tokens, rs), "getSamplesForAssay", tokens, <<>>,
                rs)
    /\ UNCHANGED <<phase, pandasInstalled>>

ReadMeasurements ==
    /\ phase = "live"
    /\ \E tokens \in TokenSeqs(AssayTokens) : \E rs \in ResponseSeqs(Len(tokens)) :
         Commit(Machine, getMeasurementDataForAssay(Machine, tokens, rs),
                "getMeasurementDataForAssay", tokens, <<>>, rs)
    /\ UNCHANGED <<phase, pandasInstalled>>

\* session.to_dataframe(data) on records already fetched
Reshape ==
    /\ phase = "live"
    /\ \E data \in {Studies, Subjects("s2"), <<>>} :
         Commit(Machine, to_dataframe(Machine, data), "to_dataframe", <<>>, <<>>, <<>>)
    /\ UNCHANGED <<phase, pandasInstalled>>

Next ==
    \/ New
    \/ Reauthenticate
    \/ DirectCall
    \/ ReadStudies
    \/ ReadSubjects
    \/ ReadAssays
    \/ ReadSamples
    \/ ReadMeasurements
    \/ Reshape

Spec == Init /\ [][Next]_vars

---------------------------------------------------------------------------
(* Concurrent use: two threads call session("getStudies") on one Session, each call
   running the statements of __call__ in order, the statements of the two calls
   interleaved.  Every request reaches the service, which answers 2xx only to the
   credential it expects. *)

\* the state in which Session(...) has returned
ConcInit ==
    /\ phase = "live"
    /\ pandasInstalled \in BOOLEAN
    /\ \E username \in Users, password \in Passwords, api_key \in ApiKeys, df \in BOOLEAN,
          r \in AuthResponses :
         LET m == __init__(username, password, api_key, df, pandasInstalled, r)
         IN  /\ Constructed(m)
             /\ user = m.user /\ passwd = m.passwd /\ apikey = m.apikey
             /\ dataframe = m.dataframe /\ deviceID = m.deviceID /\ pandas = m.pandas
             /\ sequence = m.sequence /\ token = m.token
             /\ sent = m.sent /\ srvSeq = m.srv
             /\ nsent = Len(m.sent)
             /\ handles = [open |-> m.open, peak |-> m.peak]
             /\ op = [NoOp EXCEPT !.name = "init"]
             /\ since = [initial |-> m.srv, ok |-> 0, bad |-> 0, reauth |-> FALSE]
    /\ creds = <<>>
    /\ pc = [t \in Threads |-> "idle"]
    /\ frame = [t \in Threads |-> NoFrame]
    /\ overlap = FALSE /\ desync = FALSE

sessionVars == <<phase, pandasInstalled, user, passwd, apikey, dataframe, deviceID, pandas,
                 token, creds, op, since>>

\* a thread enters __call__
Begin(t) ==
    /\ pc[t] = "idle"
    /\ nsent + Cardinality({u \in Threads : pc[u] # "idle"}) < MaxSent
    /\ pc' = [pc EXCEPT ![t] = "load"]
    /\ overlap' = (overlap \/ \E u \in Threads : pc[u] # "idle")
    /\ UNCHANGED <<sessionVars, sequence, sent, nsent, handles, srvSeq, frame, desync>>

\* self.sequence += 1, the read of the attribute
Load(t) ==
    /\ pc[t] = "load"
    /\ frame' = [frame EXCEPT ![t].tmp = sequence]
    /\ pc' = [pc EXCEPT ![t] = "store"]
    /\ UNCHANGED <<sessionVars, sequence, sent, nsent, handles, srvSeq, overlap, desync>>

\* self.sequence += 1, the write of the attribute
Store(t) ==
    /\ pc[t] = "store"
    /\ sequence' = Increment(frame[t].tmp)
    /\ pc' = [pc EXCEPT ![t] = "validate"]
    /\ UNCHANGED <<sessionVars, sent, nsent, handles, srvSeq, frame, overlap, desync>>

\* validation = md5.md5(self.token + str(self.sequence) + self.apikey).hexdigest()
Validate(t) ==
    /\ pc[t] = "validate"
    /\ frame' = [frame EXCEPT ![t].validation = ValidationFor(token, sequence, apikey)]
    /\ pc' = [pc EXCEPT ![t] = "send"]
    /\ UNCHANGED <<sessionVars, sequence, sent, nsent, handles, srvSeq, overlap, desync>>

\* the request is built and urllib2.urlopen hands it to the service
Send(t) ==
    /\ pc[t] = "send"
    /\ LET req == [url |-> baseurl \o <<"getStudies">>,
                   auth |-> <<>>,
                   body |-> QueryArgs(deviceID, frame[t].validation, <<>>),
                   delivered |-> TRUE]
           expected == ValidationFor(token, srvSeq + 1, apikey)
       IN  /\ sent' = Append(sent, req)
           /\ nsent' = nsent + 1
           /\ srvSeq' = ServerCount(srvSeq, TRUE)
           /\ desync' = (desync \/ frame[t].validation # expected)
           /\ \/ /\ frame[t].validation = expected
                 /\ pc' = [pc EXCEPT ![t] = "read"]
                 /\ handles' = [open |-> handles.open + 1,
                                peak |-> IF handles.open + 1 > handles.peak
                                         THEN handles.open + 1 ELSE handles.peak]
              \/ /\ pc' = [pc EXCEPT ![t] = "idle"]
                 /\ UNCHANGED handles
    /\ UNCHANGED <<sessionVars, sequence, frame, overlap>>

\* res = json.loads(handle.read()); the handle is closed; return res
Read(t) ==
    /\ pc[t] = "read"
    /\ pc' = [pc EXCEPT ![t] = "idle"]
    /\ handles' = [handles EXCEPT !.open = @ - 1]
    /\ UNCHANGED <<sessionVars, sequence, sent, nsent, srvSeq, frame, overlap, desync>>

ConcBegin == \E t \in Threads : Begin(t)
ConcLoad == \E t \in Threads : Load(t)
ConcStore == \E t \in Threads : Store(t)
ConcValidate == \E t \in Threads : Validate(t)
ConcSend == \E t \in Threads : Send(t)
ConcRead == \E t \in Threads : Read(t)

ConcNext ==
    \/ ConcBegin
    \/ ConcLoad
    \/ ConcStore
    \/ ConcValidate
    \/ ConcSend
    \/ ConcRead

SpecConc == ConcInit /\ [][ConcNext]_vars

---------------------------------------------------------------------------
(* Properties *)

AuthFailures == {"HTTPError", "URLError", "ValueError", "KeyError"}

AuthUrl == baseurl \o <<"authenticate">>

IsInvoke(req) == req.url # AuthUrl

\* the operations that do nothing but call __call__ (and reshape what it returned)
ReadOps ==
    {"getStudies", "getSubjectsForStudy", "getAssaysForStudy", "getSamplesForAssay",
     "getMeasurementDataForAssay"}

CallOps == ReadOps \cup {"call"}

\* the operations that call authenticate
AuthOps == {"init", "authenticate"}

\* C1: after a successful authenticate, sequence is the value the service returned;
\* after N successful invoke calls in a row since then (no failed call and no other
\* authenticate in between), sequence is that value plus N.
C1_SequenceIsInitialPlusCalls ==
    (phase = "live" /\ ~since.reauth /\ since.bad = 0)
        => sequence = since.initial + since.ok

C1_Witness ==
    /\ phase = "live" /\ ~since.reauth /\ since.bad = 0
    /\ since.ok = 2
    /\ since.initial = 10

\* C2: an invoke call that fails (non-2xx answer, transport failure, body that is not
\* JSON) leaves sequence exactly 1 above its value before the call; in an operation of
\* several calls, where the failed call is the last, every call made has added 1.
C2_FailedCallAddsOne ==
    (op.name \in CallOps /\ op.exc \in CallFailures)
        => /\ sequence = op.seq0 + Len(sent)
           /\ op.name \in {"call", "getStudies"} => sequence = op.seq0 + 1

C2_Witness ==
    /\ op.name = "call" /\ op.exc = "URLError"
    /\ sequence = op.seq0 + 1

\* C3 as stated: every request posted by invoke carries the session's deviceID and the
\* validation credential of (token, the sequence value after the call's increment,
\* API key).
C3_EveryRequestCarriesComputedFields ==
    op.name \in CallOps =>
        \A i \in 1..Len(sent) :
            /\ sent[i].body["deviceID"] = deviceID
            /\ sent[i].body["validation"] = ValidationFor(token, op.seq0 + i, apikey)

\* C3 amended: the request carries the session's deviceID unless the options name
\* deviceID, and the credential of (token, sequence after the increment, API key),
\* which is never that of the sequence before the increment, unless the options name
\* validation; the read operations pass neither key.
C3_RequestCarriesComputedFieldsUnlessOverridden ==
    op.name \in CallOps =>
        /\ op.name \in ReadOps => op.options = <<>>
        /\ \A i \in 1..Len(sent) :
            /\ IsInvoke(sent[i])
            /\ "deviceID" \notin DOMAIN op.options => sent[i].body["deviceID"] = deviceID
            /\ "validation" \notin DOMAIN op.options =>
                 /\ sent[i].body["validation"] = Md5Hex(token \o Str(op.seq0 + i) \o apikey)
                 /\ sent[i].body["validation"] # Md5Hex(token \o Str(op.seq0 + i - 1) \o apikey)

C3_Witness ==
    /\ op.name = "getStudies" /\ op.seq0 = 10 /\ token = <<"T">>
    /\ Len(sent) = 1
    /\ sent[1].body["validation"] = Md5Hex(<<"T", "1", "1">> \o apikey)
    /\ sent[1].body["deviceID"] = deviceID

\* what the service holds for a token, by read operation
Held(name, t) ==
    CASE name = "getSubjectsForStudy" -> Subjects(t)
      [] name = "getAssaysForStudy" -> Assays(t)
      [] name = "getSamplesForAssay" -> Samples(t)

OptionKey(name) ==
    IF name \in {"getSamplesForAssay", "getMeasurementDataForAssay"} THEN "assayToken"
    ELSE "studyToken"

RECURSIVE HeldInOrder(_, _)
HeldInOrder(name, tokens) ==
    IF tokens = <<>> THEN <<>>
    ELSE Held(name, Head(tokens)) \o HeldInOrder(name, Tail(tokens))

MergeOps == {"getSubjectsForStudy", "getAssaysForStudy", "getSamplesForAssay"}

\* C4: a successful getSubjectsForStudy, getAssaysForStudy or getSamplesForAssay has
\* sent one request per token, in the order of the tokens, and returns the per-token
\* record lists concatenated in that order with duplicates kept (as a list, or as the
\* table of that list); for two tokens, the list for the first followed by the list
\* for the second.
C4_MergeIsConcatenationInOrder ==
    (op.name \in MergeOps /\ op.exc = "None") =>
        /\ Len(sent) = Len(op.tokens)
        /\ \A i \in 1..Len(sent) :
              /\ sent[i].url = baseurl \o <<op.name>>
              /\ sent[i].body[OptionKey(op.name)] = op.tokens[i]
        /\ op.val = IF dataframe THEN Table(HeldInOrder(op.name, op.tokens))
                    ELSE JsonList(HeldInOrder(op.name, op.tokens))
        /\ (Len(op.tokens) = 2 /\ ~dataframe) =>
              op.val.v = Held(op.name, op.tokens[1]) \o Held(op.name, op.tokens[2])

C4_Witness ==
    /\ op.name = "getSubjectsForStudy" /\ op.exc = "None" /\ ~dataframe
    /\ op.tokens = <<"s1", "s2">>
    /\ Len(op.val.v) = 3
    /\ op.val.v[2] = op.val.v[3]

\* C5 as stated: with the tabular backend absent, constructing a client with tabular
\* output enabled succeeds once the authentication has succeeded.
C5_ConstructionSucceedsWithoutBackend ==
    (op.name = "init" /\ dataframe /\ ~pandasInstalled /\ op.exc \notin AuthFailures)
        => (phase = "live" /\ op.exc = "None")

\* C6 as stated: an operation that fails because the tabular backend is unavailable
\* has sent no request and has left sequence as it was.
C6_BackendFailureSendsNothing ==
    (op.exc = "ImportError" \/ (op.name = "to_dataframe" /\ op.exc = "AttributeError"))
        => (sent = <<>> /\ sequence = op.seq0)

\* C7: when the authentication exchange of a construction fails, the construction
\* fails with that error; one authenticate request was sent and no other request is
\* ever sent for it, and no Session object exists.
C7_FailedAuthenticationEndsConstruction ==
    /\ (op.name = "init" /\ op.exc \in AuthFailures) => phase = "failed"
    /\ phase = "failed" =>
          /\ op.name = "init" /\ op.exc # "None"
          /\ nsent = 1 /\ Len(sent) = 1
          /\ sent[1].url = AuthUrl

C7_Witness ==
    /\ phase = "failed" /\ op.exc = "HTTPError"
    /\ nsent = 1

\* C8 as stated: getMeasurementDataForAssay with tabular output, answered with the
\* mapping from token to field-mapping of one assay, returns the table with one row per
\* token of the mapping, indexed by the token, holding the token's field values.
C8_MeasurementTable ==
    (/\ op.name = "getMeasurementDataForAssay" /\ dataframe
     /\ Len(op.tokens) = 1 /\ Len(sent) = 1 /\ op.exc \notin CallFailures)
        => /\ op.exc = "None"
           /\ op.val.kind = "table"
           /\ {op.val.index[i] : i \in DOMAIN op.val.index} = DOMAIN Measurements(op.tokens[1])
           /\ \A i \in DOMAIN op.val.index :
                 op.val.rows[i] = Measurements(op.tokens[1])[op.val.index[i]]

\* C9: when two invoke calls run concurrently on one Session with no mutual
\* exclusion, the service can receive a credential for a sequence value other than the
\* one it expects next (C9_Witness is such a state, there with the same sequence value
\* sent twice); with every request delivered, this happens only when one call began
\* while another was in progress.
C9_DesyncOnlyByOverlap == desync => overlap

C9_Witness ==
    /\ desync /\ overlap
    /\ \E i, j \in 1..Len(sent) :
          /\ i < j /\ IsInvoke(sent[i]) /\ IsInvoke(sent[j])
          /\ sent[i].body["validation"] = sent[j].body["validation"]

\* C10 as stated: between two authentications, the credentials of successive requests
\* are those of sequence values that rise by exactly 1, whether or not the earlier
\* request succeeded, so no two requests carry the same validation credential.
C10_SuccessiveCredentials ==
    /\ \A j \in 1..(Len(creds) - 1) :
          \E n \in 0..sequence :
             /\ creds[j].validation = Md5Hex(token \o Str(n) \o apikey)
             /\ creds[j + 1].validation = Md5Hex(token \o Str(n + 1) \o apikey)
    /\ \A j, k \in 1..Len(creds) : j # k => creds[j].validation # creds[k].validation

\* C10 amended: between two calls of authenticate, the credential __call__ computes for
\* a request is that of a sequence value exactly 1 above the one of the request before
\* it, whether or not that request succeeded; so no two requests that carry the
\* computed credential (their options do not name validation) carry the same one.
C10_SuccessiveComputedCredentials ==
    \A j, k \in 1..Len(creds) :
        (j < k /\ creds[j].computed /\ creds[k].computed) =>
            /\ \E n \in 0..sequence :
                  /\ creds[j].validation = Md5Hex(token \o Str(n) \o apikey)
                  /\ creds[k].validation = Md5Hex(token \o Str(n + (k - j)) \o apikey)
            /\ creds[j].validation # creds[k].validation

C10_Witness ==
    /\ Len(creds) = 2 /\ creds[1].computed /\ creds[2].computed
    /\ since.bad = 1 /\ since.ok = 1 /\ op.exc = "None"
    /\ creds[1].validation = Md5Hex(token \o <<"1", "0">> \o apikey)
    /\ creds[2].validation = Md5Hex(token \o <<"1", "1">> \o apikey)

\* the number of requests of the last operation that reached the service
Delivered == Cardinality({i \in 1..Len(sent) : sent[i].delivered})

\* C11 as stated: when sequence and the sequence value the service expects agreed
\* before an operation, and the operation's call failed without its request reaching
\* the service (which counts the requests it receives), they still agree after it;
\* they disagree only when the failed request did reach the service.
C11_UndeliveredFailureKeepsAgreement ==
    (/\ op.name \in CallOps /\ op.exc \in CallFailures
     /\ op.seq0 = srvSeq - Delivered)
        => /\ ~sent[Len(sent)].delivered => sequence = srvSeq
           /\ sequence # srvSeq => sent[Len(sent)].delivered

\* the read operations that take tokens
TokenOps == ReadOps \ {"getStudies"}

\* the exception an answer of the service ends __call__ with
ErrorOf(answer) ==
    CASE answer = "http" -> "HTTPError"
      [] answer = "unreach" -> "URLError"
      [] answer = "badjson" -> "ValueError"

\* C12: when, in a read operation over several tokens, the call for the i-th token is
\* the first to fail, the operation ends with that call's error and returns nothing;
\* it has sent exactly i requests, one for each of the first i tokens in order (none
\* for the remaining tokens, none twice), and sequence is i above its value before the
\* operation.
C12_FailureAtTokenEndsOperation ==
    \A i \in 1..Len(op.tokens) :
        (/\ op.name \in TokenOps
         /\ op.answers[i] # "ok"
         /\ \A j \in 1..(i - 1) : op.answers[j] = "ok")
            => /\ op.exc = ErrorOf(op.answers[i])
               /\ op.val = <<>>
               /\ Len(sent) = i
               /\ \A j \in 1..i :
                     /\ sent[j].url = baseurl \o <<op.name>>
                     /\ sent[j].body[OptionKey(op.name)] = op.tokens[j]
               /\ sequence = op.seq0 + i

C12_Witness ==
    /\ op.name = "getAssaysForStudy" /\ op.tokens = <<"s2", "s1">>
    /\ op.answers = <<"badjson", "ok">>
    /\ op.exc = "ValueError"
    /\ Len(sent) = 1 /\ sequence = op.seq0 + 1

\* C13: every handle urlopen returned to authenticate or __call__ is closed when the
\* call has returned or raised, also when json.loads raised on the body read from it:
\* between calls no handle is open, and during an operation at most one handle was
\* open at a time.
C13_HandlesReleased ==
    /\ handles.open = 0
    /\ handles.peak <= 1
    /\ (op.name \in CallOps /\ Len(sent) > 0 /\ op.answers[Len(sent)] \in {"ok", "badjson"})
          => handles.peak = 1
    /\ (op.name \in AuthOps /\ op.answers[1].kind \notin {"http", "unreach"})
          => handles.peak = 1

C13_Witness ==
    /\ op.name = "call" /\ op.answers = <<"badjson">> /\ op.exc = "ValueError"
    /\ handles = [open |-> 0, peak |-> 1]

\* C14: token and sequence change only in authenticate and in __call__.  A step of a
\* read operation or of a direct call leaves token as it was and adds to sequence 1 for
\* each request it sent; a reshape changes neither; what authenticate changes it sets
\* to the value in the service's response, both when it succeeds; sequence goes down
\* only in an authenticate.
C14_TokenAndSequenceFrame ==
    [][/\ op'.name \in CallOps => (token' = token /\ sequence' = sequence + Len(sent'))
       /\ op'.name = "to_dataframe" => (token' = token /\ sequence' = sequence)
       /\ op'.name \in AuthOps =>
             /\ sequence' # sequence => sequence' = op'.answers[1].sequence
             /\ token' # token => token' = op'.answers[1].token
             /\ op'.exc \notin AuthFailures =>
                   /\ sequence' = op'.answers[1].sequence
                   /\ token' = op'.answers[1].token
       /\ sequence' < sequence => op'.name \in AuthOps]_vars

C14_Witness ==
    /\ op.name = "getSamplesForAssay" /\ op.exc = "None" /\ dataframe
    /\ Len(sent) = 2 /\ sequence = op.seq0 + 2
    /\ sequence = since.initial + 2 /\ token = <<"U">>

\* C15 as stated: deviceID is computed at construction and no later operation changes
\* it or user, passwd and apikey; every request sent from then on (by authenticate, at
\* construction or later, and by __call__) carries it.
C15_DeviceIDInEveryRequest ==
    [][/\ phase = "live" =>
             (deviceID' = deviceID /\ user' = user /\ passwd' = passwd /\ apikey' = apikey)
       /\ \A i \in 1..Len(sent') : sent'[i].body["deviceID"] = deviceID']_vars

\* C15 amended: as stated, but for a request of __call__ whose options name deviceID.
C15_DeviceIDInEveryRequestUnlessOverridden ==
    [][/\ phase = "live" =>
             (deviceID' = deviceID /\ user' = user /\ passwd' = passwd /\ apikey' = apikey)
       /\ \A i \in 1..Len(sent') :
             (IsInvoke(sent'[i]) => "deviceID" \notin DOMAIN op'.options)
                => sent'[i].body["deviceID"] = deviceID']_vars

C15_Witness ==
    /\ op.name = "authenticate" /\ op.exc = "None" /\ nsent = 3
    /\ Len(sent) = 1 /\ ~IsInvoke(sent[1])
    /\ sent[1].body["deviceID"] = Md5Hex(<<"1", "7">> \o base_string \o <<"a">>)
    /\ deviceID = sent[1].body["deviceID"]

ReservedKeys == {"deviceID", "validation"}

\* C16: the body of the request of session(action, options) holds every entry of
\* options as the caller gave it, also under the keys deviceID and validation, where
\* the caller's value stands in place of the computed one; the reserved keys the
\* options do not name hold the computed values, and the body holds nothing else; the
\* mapping the caller passed is the same after the call.
C16_OptionsOverrideReservedFields ==
    op.name = "call" =>
        /\ Len(sent) = 1
        /\ DOMAIN sent[1].body = DOMAIN op.options \cup ReservedKeys
        /\ \A k \in DOMAIN op.options : sent[1].body[k] = op.options[k]
        /\ "deviceID" \notin DOMAIN op.options => sent[1].body["deviceID"] = deviceID
        /\ "validation" \notin DOMAIN op.options =>
              sent[1].body["validation"] = Md5Hex(token \o Str(sequence) \o apikey)
        /\ op.optionsAfter = op.options

C16_Witness ==
    /\ op.name = "call"
    /\ op.options = ("deviceID" :> <<"d">>) @@ ("assayToken" :> "a1")
    /\ sent[1].body["deviceID"] = <<"d">> /\ deviceID # <<"d">>
    /\ sent[1].body["assayToken"] = "a1"
    /\ sent[1].body["validation"] = Md5Hex(token \o Str(sequence) \o apikey)
    /\ op.optionsAfter = op.options

\* C17 as stated: getMeasurementDataForAssay called with several assay tokens, every
\* call answered with the assay's measurements, has sent one request per token in the
\* order of the tokens and returns the merge of the answers, which holds for every
\* measurement token of every assay its field-mapping (as a mapping, or with tabular
\* output as the table with a row for it).
C17_MeasurementsMergedWithFields ==
    (/\ op.name = "getMeasurementDataForAssay" /\ Len(op.tokens) > 1
     /\ \A i \in 1..Len(op.tokens) : op.answers[i] = "ok")
        => /\ Len(sent) = Len(op.tokens)
           /\ \A i \in 1..Len(sent) : sent[i].body["assayToken"] = op.tokens[i]
           /\ op.exc = "None"
           /\ op.val.kind = IF dataframe THEN "table" ELSE "dict"
           /\ \A j \in 1..Len(op.tokens) : \A k \in DOMAIN Measurements(op.tokens[j]) :
                 IF dataframe
                 THEN \E i \in DOMAIN op.val.index :
                         /\ op.val.index[i] = k
                         /\ op.val.rows[i] = Measurements(op.tokens[j])[k]
                 ELSE /\ k \in DOMAIN op.val.v
                      /\ op.val.v[k] = Measurements(op.tokens[j])[k]

\* C18: a read operation that succeeds has sent one request per call of __call__ it
\* made and sequence is that number above its value before: 1 for getStudies, k for an
\* operation given k tokens; given no tokens, an operation sends no request and leaves
\* sequence as it was.
C18_SequenceAdvancesByRequestsSent ==
    /\ (op.name \in ReadOps /\ op.exc = "None") =>
          /\ Len(sent) = IF op.name = "getStudies" THEN 1 ELSE Len(op.tokens)
          /\ \A i \in 1..Len(sent) : IsInvoke(sent[i]) /\ sent[i].delivered
          /\ sequence = op.seq0 + Len(sent)
    /\ (op.name \in TokenOps /\ op.tokens = <<>>) =>
          (sent = <<>> /\ sequence = op.seq0)

C18_Witness ==
    /\ op.name = "getSamplesForAssay" /\ op.exc = "None"
    /\ Len(op.tokens) = 2 /\ Len(sent) = 2
    /\ op.seq0 = 10 /\ sequence = 12

\* C19 as stated: an authenticate on a live session that fails (the request rejected
\* or not delivered, a body that is not JSON, a response without sequence or without
\* token) leaves both sequence and token as they were; one that succeeds sets both
\* from the response.
C19_AuthenticateAllOrNothing ==
    [][op'.name = "authenticate" =>
          IF op'.exc \in AuthFailures
          THEN sequence' = sequence /\ token' = token
          ELSE /\ sequence' = op'.answers[1].sequence
               /\ token' = op'.answers[1].token]_vars

====
